---------------------------- MODULE Spec2Model ----------------------------
(***************************************************************************)
(* docker-gompose: the dependency-aware start orchestrator of              *)
(* compose/app.go.  One caller task runs commands on an App; start spawns  *)
(* one goroutine per service that declares dependencies; one coordinator   *)
(* goroutine (newDepedencyHandlers) matches wait handles against ready     *)
(* notifications over two unbuffered channels.                             *)
(*                                                                         *)
(* Representation: an identifier the engine or the OS hands out is a       *)
(* record naming the resource and the command that made it (so two         *)
(* identifiers never coincide) and NoID is the empty string of an          *)
(* identifier field; error values are strings and "nil" is the nil error;  *)
(* a volume spec string is a sequence of one-character strings.            *)
(***************************************************************************)
EXTENDS Integers, Sequences, FiniteSets, TLC

\* ------------------------------------------------------------ bounds
\* number of start commands one behaviour issues
MaxRuns == 2
\* number of operations of one behaviour in which an engine, OS or file call fails
MaxFaults == 1
\* the stop and clean commands of a behaviour
MaxStops == 1

\* ------------------------------------------------- program constants
UNKNOWN_DRIVER == 0
DOCKER == 1
EXEC == 2
UNKNOWN_STATUS == 0
RUNNING == 1
STOPPED == 2

nil == "nil"
NoID == [res |-> "", gen |-> 0]

\* --------------------------------------------------------- utilities
Put(m, k, v) == [x \in (DOMAIN m) \cup {k} |-> IF x = k THEN v ELSE m[x]]

Range(s) == {s[i] : i \in 1..Len(s)}

EmptyMap == [x \in {} |-> 0]

\* strings.Split(s, ":") on a sequence of characters
RECURSIVE Split(_, _)
Split(s, sep) ==
    IF \A i \in 1..Len(s) : s[i] # sep
    THEN <<s>>
    ELSE LET k == CHOOSE i \in 1..Len(s) :
                      s[i] = sep /\ \A j \in 1..(i - 1) : s[j] # sep
         IN  <<SubSeq(s, 1, k - 1)>> \o Split(SubSeq(s, k + 1, Len(s)), sep)

isReadOnlyNever(vol) == FALSE

isReadOnly(vol) == IF Len(vol) = 3 THEN vol[3] = <<"r", "o">> ELSE FALSE

\* NewVolume: the parsed volume and the error
NewVolume(volumeString) ==
    LET paths == Split(volumeString, ":")
    IN  IF Len(paths) < 2 \/ Len(paths) > 3
        THEN [vol |-> [Source |-> <<>>, Target |-> <<>>, ReadOnly |-> FALSE],
              err |-> "invalid volume path"]
        ELSE [vol |-> [Source |-> paths[1], Target |-> paths[2],
                       ReadOnly |-> isReadOnly(paths)],
              err |-> nil]

\* utils.ReturnError: the first non-nil error of the list
ReturnError(errs) ==
    IF \A i \in 1..Len(errs) : errs[i] = nil
    THEN nil
    ELSE errs[CHOOSE i \in 1..Len(errs) :
                  errs[i] # nil /\ \A j \in 1..(i - 1) : errs[j] = nil]

\* strings.ToUpper on the driver strings the definitions use
ToUpper(str) ==
    CASE str = "docker" -> "DOCKER"
      [] str = "exec"   -> "EXEC"
      [] OTHER          -> str

DriverFromString(str) ==
    CASE ToUpper(str) = "DOCKER" -> DOCKER
      [] ToUpper(str) = "EXEC"   -> EXEC
      [] OTHER                   -> UNKNOWN_DRIVER


\* --------------------------------------------------- container builder
\* asNatPort: the port with /tcp appended unless it contains /tcp or /udp
asNatPort(binding) ==
    IF "/tcp" \in Range(binding) \/ "/udp" \in Range(binding)
    THEN binding
    ELSE Append(binding, "/tcp")

\* NewPortBinding: the binding and the error
NewPortBinding(portStr) ==
    LET bindings == Split(portStr, ":")
    IN  IF Len(bindings) # 2
        THEN [binding |-> [Container |-> <<>>, Host |-> <<>>],
              err |-> "could not parse port string as port binding"]
        ELSE [binding |-> [Container |-> asNatPort(bindings[1]), Host |-> bindings[2]],
              err |-> nil]

\* GetPortBindings: the port map built over the port specs; the first error
\* ends it with no map
RECURSIVE PortMapOf(_, _)
PortMapOf(ports, portmap) ==
    IF ports = <<>> THEN [portmap |-> portmap, err |-> nil]
    ELSE LET pb == NewPortBinding(Head(ports))
             c == pb.binding.Container
             before == IF c \in DOMAIN portmap THEN portmap[c] ELSE <<>>
         IN  IF pb.err # nil
             THEN [portmap |-> EmptyMap, err |-> pb.err]
             ELSE PortMapOf(Tail(ports),
                      Put(portmap, c,
                          Append(before, [HostIP |-> "0.0.0.0",
                                          HostPort |-> pb.binding.Host])))

GetPortBindings(service) == PortMapOf(service.Ports, EmptyMap)

\* the calls of NewPortBinding that GetPortBindings makes, in order, each with
\* its argument and its result; the first error is the last call
RECURSIVE PortCalls(_)
PortCalls(ports) ==
    IF ports = <<>> THEN <<>>
    ELSE LET pb == NewPortBinding(Head(ports))
             call == [portStr |-> Head(ports), binding |-> pb.binding, err |-> pb.err]
         IN  IF pb.err # nil THEN <<call>> ELSE <<call>> \o PortCalls(Tail(ports))

\* parseVolumes: the error of the first volume spec that does not parse or
\* whose source is not registered
RECURSIVE parseVolumesErr(_, _)
parseVolumesErr(vols, volumes) ==
    IF vols = <<>> THEN nil
    ELSE LET r == NewVolume(Head(vols))
         IN  IF r.err # nil THEN r.err
             ELSE IF r.vol.Source \notin DOMAIN volumes
             THEN "could not find volume source in parsed Volumes"
             ELSE parseVolumesErr(Tail(vols), volumes)

\* NewContainerBuilder(name)...AddVolumes(service, volumes).AddPortBindings(service):
\* the port bindings of the host config and builder.err
ContainerBuilder(name, service, volumes) ==
    LET verr == parseVolumesErr(service.Volumes, volumes)
        binds == GetPortBindings(service)
    IN  IF verr # nil THEN [PortBindings |-> EmptyMap, err |-> verr, calls |-> <<>>]
        ELSE IF binds.err # nil
        THEN [PortBindings |-> EmptyMap, err |-> binds.err,
              calls |-> PortCalls(service.Ports)]
        ELSE [PortBindings |-> binds.portmap, err |-> nil,
              calls |-> PortCalls(service.Ports)]

\* ------------------------------------------------------- definitions
Names == {"a", "b", "c"}

\* the zero value Process{}
NoProc ==
    [ID |-> NoID, PID |-> NoID, Driver |-> UNKNOWN_DRIVER, Status |-> UNKNOWN_STATUS,
     OnStop |-> "", StopSignal |-> ""]

\* func nilfn() error { return nil }
nilfn == [kind |-> "nilfn", name |-> "", proc |-> NoProc, service |-> ""]

Service(driver, dependsOn, volumes) ==
    [Driver |-> driver, DependsOn |-> dependsOn, Volumes |-> volumes,
     OnStop |-> "", StopSignal |-> "", Ports |-> <<>>]

VolOk == <<"d", ":", "t">>
VolBad == <<"d">>
VolRO == <<"d", ":", "t", ":", "r", "o">>
VolRW == <<"e", ":", "t", ":", "r", "w">>
VolFour == <<"d", ":", "t", ":", "r", "o", ":", "z">>

\* the declarative documents (Definition.Services) a behaviour may be given
DefChain ==
    [n \in {"a", "b"} |->
        IF n = "a" THEN Service("", <<>>, <<>>) ELSE Service("docker", <<"a">>, <<>>)]

DefExec ==
    [n \in {"a", "b"} |->
        IF n = "a" THEN Service("exec", <<>>, <<>>) ELSE Service("", <<"a">>, <<>>)]

DefThree ==
    [n \in {"a", "b", "c"} |->
        CASE n = "a" -> Service("", <<>>, <<>>)
          [] n = "b" -> Service("", <<"a">>, <<>>)
          [] n = "c" -> Service("EXEC", <<"a", "b">>, <<>>)]

DefVolumes ==
    [n \in {"a", "b"} |->
        IF n = "a" THEN Service("", <<>>, <<VolOk>>) ELSE Service("", <<>>, <<VolBad>>)]

\* a container with a read-only mount, a read-write one and a spec of four parts
DefVolumeModes ==
    [n \in {"a"} |-> Service("", <<>>, <<VolRO, VolRW, VolFour>>)]

DefCycle ==
    [n \in {"a", "b"} |->
        IF n = "a" THEN Service("", <<"b">>, <<>>) ELSE Service("", <<"a">>, <<>>)]

DefUndeclared ==
    [n \in {"a", "b"} |->
        IF n = "a" THEN Service("", <<>>, <<>>) ELSE Service("", <<"z">>, <<>>)]

\* a container with a stop signal and a process with an on-stop command
DefSignals ==
    [n \in {"a", "b"} |->
        IF n = "a" THEN [Service("", <<>>, <<>>) EXCEPT !.StopSignal = "SIGTERM"]
        ELSE [Service("exec", <<>>, <<>>) EXCEPT !.OnStop = "stop.sh"]]

\* port spec strings: host and container port differing, a protocol suffix, the
\* same port on both sides, no colon, two colons
Port8080to80 == <<"8080", ":", "80">>
Port53udp == <<"53", ":", "53", "/udp">>
Port5432 == <<"5432", ":", "5432">>
PortNoColon == <<"80">>
PortTwoColons == <<"1", ":", "2", ":", "3">>

\* containers with port specs
DefPorts ==
    [n \in {"a", "b"} |->
        IF n = "a"
        THEN [Service("", <<>>, <<>>) EXCEPT !.Ports = <<Port8080to80, Port53udp>>]
        ELSE [Service("", <<>>, <<>>) EXCEPT !.Ports = <<Port5432, PortNoColon>>]]

DefPortsBad ==
    [n \in {"a"} |->
        [Service("", <<>>, <<>>) EXCEPT !.Ports = <<PortTwoColons, Port5432>>]]

Definitions ==
    {DefChain, DefExec, DefThree, DefVolumes, DefCycle, DefUndeclared, DefSignals,
     DefPorts, DefPortsBad, DefVolumeModes}

\* ----------------------------------------------------- the lock file
\* a JSON object: the members of the map m
Members(m) == {<<k, m[k]>> : k \in DOMAIN m}

\* the map a JSON object is decoded into
FromMembers(obj) ==
    [k \in {mb[1] : mb \in obj} |-> (CHOOSE mb \in obj : mb[1] = k)[2]]

\* json.Marshal(app): the exported fields of App; a Process is written with its
\* embedded Driver and Status as numbers
Marshal(app) ==
    [Volumes |-> Members(app.Volumes), NetworkID |-> app.NetworkID,
     Containers |-> Members(app.Containers), Processes |-> Members(app.Processes)]

UnmarshalWithoutProcesses(doc) ==
    [Volumes |-> FromMembers(doc.Volumes), NetworkID |-> doc.NetworkID,
     Containers |-> FromMembers(doc.Containers), Processes |-> EmptyMap]

\* json.Unmarshal(lock, &app)
Unmarshal(doc) ==
    [Volumes |-> FromMembers(doc.Volumes), NetworkID |-> doc.NetworkID,
     Containers |-> FromMembers(doc.Containers),
     Processes |-> FromMembers(doc.Processes)]

\* the App createAppFromLockFile makes when there is no lock file
EmptyApp ==
    [Volumes |-> EmptyMap, NetworkID |-> NoID, Containers |-> EmptyMap,
     Processes |-> EmptyMap]

\* createAppFromLockFile: the empty App when the file does not exist, else the
\* decoded one
createAppFromLockFile(file) ==
    IF ~file.present THEN [app |-> EmptyApp, err |-> nil]
    ELSE [app |-> Unmarshal(file.data), err |-> nil]

\* ------------------------------------------------------------- state
VARIABLES
    definition,     \* the document of this behaviour (config.yaml / request body)
    Volumes,        \* App.Volumes: volume source -> engine volume name
    NetworkID,      \* App.NetworkID
    Containers,     \* App.Containers: service name -> Process
    Processes,      \* App.Processes: service name -> Process
    wg,             \* App.wg: the WaitGroup counter
    dependants,     \* the coordinator goroutine's list of Dependency handles
    coord,          \* the coordinator goroutine's position
    signalled,      \* the handles whose channel has received a value
    pc,             \* the caller task's position
    errs,           \* the errors start has collected for HandleErrors
    retErr,         \* what the last start returned
    services,       \* definition.Services of the running start
    unvisited,      \* the services the range loop of createProcesses has not visited
    loopName,       \* the range loop's variable name (service is services[loopName])
    cur,            \* the start closure of the inline invokeStart
    volQueue,       \* the volume specs registerVolumes has still to visit
    runs,           \* the commands completed so far
    task,           \* the goroutines createProcesses spawned, by spawning service
    faults,         \* the operations in which a call has failed so far
    lockFile,       \* the contents of .gompose.lock
    launched,       \* history: the services whose start closure was called in this run
    sent,           \* history: <<sender, name>> of each serviceDone send of this run
    runningBefore,  \* history: the services IsServiceRunning held of at the run's start
    engineOps,      \* history: the engine / OS calls of this run
    failedOps,      \* history: the engine / OS calls of this run that returned an error
    storeBefore,    \* history: the store at the run's start
    completed,      \* history: the services whose launch task completed in this run
    attempted,      \* history: the engine / OS calls of this command, by resource
    cmd,            \* history: the command that runs or ran last
    builders,       \* history: the builder of each container this start has built
    parsed,         \* history: the NewVolume calls of registerVolumes in this start
    volCreates,     \* history: the VolumeCreate calls since the last clean
    stops,          \* the stop and clean commands completed so far
    req             \* the position of a second /config request of the HTTP server

store == <<Volumes, NetworkID, Containers, Processes>>
coordv == <<dependants, coord, signalled>>
loopv == <<services, unvisited, loopName, cur>>
hist == <<launched, sent, runningBefore, engineOps, failedOps, storeBefore, completed,
          attempted, cmd, builders, parsed, volCreates>>
vars == <<definition, store, wg, coordv, pc, errs, retErr, loopv, volQueue, runs, task,
          faults, lockFile, hist, stops, req>>

Store == [Volumes |-> Volumes, NetworkID |-> NetworkID,
          Containers |-> Containers, Processes |-> Processes]

\* the identifier the engine (the OS) gives the resource res it makes now
FreshID(res) == [res |-> res, gen |-> runs + 1]

NoTask == [pc |-> "none", start |-> nilfn, deps |-> <<>>, i |-> 0, name |-> "",
           dep |-> [service |-> "", owner |-> "", run |-> 0, i |-> 0]]

\* NewApp with no lock file: createAppFromLockFile's empty App, a fresh coordinator
Init ==
    /\ definition \in Definitions
    /\ Volumes = EmptyMap
    /\ NetworkID = NoID
    /\ Containers = EmptyMap
    /\ Processes = EmptyMap
    /\ wg = 0
    /\ dependants = <<>>
    /\ coord = [pc |-> "select", service |-> "", idx |-> 0]
    /\ signalled = {}
    /\ pc = "idle"
    /\ errs = <<>>
    /\ retErr = nil
    /\ services = EmptyMap
    /\ unvisited = {}
    /\ loopName = ""
    /\ cur = nilfn
    /\ volQueue = <<>>
    /\ runs = 0
    /\ task = [n \in Names |-> NoTask]
    /\ faults = 0
    /\ lockFile = [present |-> FALSE, data |-> Marshal(EmptyApp)]
    /\ launched = {}
    /\ sent = {}
    /\ runningBefore = {}
    /\ engineOps = {}
    /\ failedOps = {}
    /\ storeBefore = Store
    /\ completed = {}
    /\ attempted = {}
    /\ cmd = "none"
    /\ builders = EmptyMap
    /\ parsed = {}
    /\ volCreates = {}
    /\ stops = 0
    /\ req = "idle"

\* ------------------------------------------------------ launch path
IsServiceRunning(service) ==
    \/ service \in DOMAIN Containers /\ Containers[service].Status = RUNNING
    \/ service \in DOMAIN Processes /\ Processes[service].Status = RUNNING

\* What a call returns and does: the closure and error returned, the Containers
\* map it leaves, the identifiers it consumed, the engine calls it made.
Outcome(start, err, containers, ops, failing) ==
    [start |-> start, err |-> err, Containers |-> containers,
     ops |-> ops, failedOps |-> failing]

\* createExecProcess: nilfn for a process already tracked by name, else the
\* closure that spawns the command
createExecProcess(name, service) ==
    IF name \in DOMAIN Processes
    THEN {Outcome(nilfn, nil, Containers, {}, {})}
    ELSE {Outcome([kind |-> "exec", name |-> name, proc |-> NoProc,
                   service |-> name], nil, Containers, {}, {})}

\* the record createNewContainer stores for a created container
createdRecord(id, service) ==
    [ID |-> id, PID |-> NoID, Driver |-> DOCKER, Status |-> RUNNING,
     OnStop |-> "", StopSignal |-> service.StopSignal]

\* createNewContainer: Build, on "No such image" ImagePull and Build again, the
\* record, NetworkConnect; each engine call may fail
createNewContainer(name, service) ==
    LET created(ops, failing) ==
            LET c == Put(Containers, name, createdRecord(FreshID(name), service))
            IN  { Outcome([kind |-> "startNew", name |-> name,
                           proc |-> createdRecord(FreshID(name), service),
                           service |-> name],
                          nil, c, ops \cup {"NetworkConnect"}, failing),
                  Outcome(nilfn, "connect", c, ops \cup {"NetworkConnect"},
                          failing \cup {"NetworkConnect"}) }
    IN  created({"ContainerCreate"}, {})
        \cup {Outcome(nilfn, "create", Containers, {"ContainerCreate"},
                      {"ContainerCreate"})}
        \cup {Outcome(nilfn, "pull", Containers, {"ContainerCreate", "ImagePull"},
                      {"ContainerCreate", "ImagePull"})}
        \cup {Outcome(nilfn, "create", Containers, {"ContainerCreate", "ImagePull"},
                      {"ContainerCreate"})}
        \cup created({"ContainerCreate", "ImagePull"}, {"ContainerCreate"})

\* createContainer: nilfn for a record that is not STOPPED, the restart closure
\* for a STOPPED one, else createNewContainer
createContainerAlwaysNew(name, service) == createNewContainer(name, service)

createContainer(name, service) ==
    IF name \in DOMAIN Containers
    THEN IF Containers[name].Status # STOPPED
         THEN {Outcome(nilfn, nil, Containers, {}, {})}
         ELSE {Outcome([kind |-> "restart", name |-> name, proc |-> Containers[name],
                        service |-> name], nil, Containers, {}, {})}
    ELSE createNewContainer(name, service)

createProcess(name, service) ==
    IF DriverFromString(service.Driver) = EXEC
    THEN createExecProcess(name, service)
    ELSE createContainer(name, service)

\* The start closures.  What calling one returns and does to the store.
StartResult(err, containers, processes, ops) ==
    [err |-> err, Containers |-> containers, Processes |-> processes, ops |-> ops,
     failedOps |-> IF err # nil THEN ops ELSE {}]

restartedStaysStopped(proc) == proc

\* the restart closure of createContainer after ContainerStart has succeeded:
\* proc.Status = RUNNING
restarted(proc) == [proc EXCEPT !.Status = RUNNING]

startClosure(closure) ==
    CASE closure.kind = "nilfn" ->
            {StartResult(nil, Containers, Processes, {})}
      [] closure.kind = "exec" ->
            { StartResult("start", Containers, Processes, {"ProcessStart"}),
              StartResult(nil, Containers,
                          Put(Processes, closure.name,
                              [ID |-> FreshID(closure.name), PID |-> FreshID(closure.name),
                               Driver |-> EXEC,
                               Status |-> RUNNING,
                               OnStop |-> services[closure.service].OnStop,
                               StopSignal |-> services[closure.service].StopSignal]),
                          {"ProcessStart"}) }
      [] closure.kind = "restart" ->
            { StartResult("start", Containers, Processes, {"ContainerStart"}),
              StartResult(nil,
                          Put(Containers, closure.name, restarted(closure.proc)),
                          Processes, {"ContainerStart"}) }
      [] closure.kind = "startNew" ->
            { StartResult("start", Containers, Processes, {"ContainerStart"}),
              StartResult(nil, Containers, Processes, {"ContainerStart"}) }

\* invokeStart after its send: the closure's error is logged, wg.Done() follows
wgAfterInvokeStartReturnOnError(w, err) == IF err = nil THEN w - 1 ELSE w

wgAfterInvokeStart(w, err) == w - 1

\* newDepedencyHandlers, case service := <-doneService: the first handle at or
\* after from whose service is the notified one (0: the range is over)
NextMatch(list, service, from) ==
    IF \E j \in from..Len(list) : list[j].service = service
    THEN CHOOSE j \in from..Len(list) :
             list[j].service = service
             /\ \A k \in from..(j - 1) : list[k].service # service
    ELSE 0

coordAt(service, k) ==
    IF k = 0 THEN [pc |-> "select", service |-> "", idx |-> 0]
    ELSE [pc |-> "signal", service |-> service, idx |-> k]

\* the coordinator after receiving service on doneService
coordDone(service) == coordAt(service, NextMatch(dependants, service, 1))

\* the coordinator after d.channel <- true has been received
coordSignalled == coordAt(coord.service, NextMatch(dependants, coord.service, coord.idx + 1))

\* the list after case d := <-waiter
coordRegister(d) == Append(dependants, d)

NewDependency(service, owner, i) ==
    [service |-> service, owner |-> owner, run |-> runs, i |-> i]

\* ------------------------------------------------------- setup phase
\* LogErrors logs every error and returns nil
LogErrors(es) == nil

\* HandleErrors calls the handler f it is given on the errors
HandleErrors(f, es) == IF f = "ReturnError" THEN ReturnError(es) ELSE LogErrors(es)

\* createNetworks: the stored network is kept when NetworkInspect succeeds; else
\* NetworkCreate, whose error is returned
createNetworks ==
    LET inspected == IF NetworkID # NoID THEN {"NetworkInspect"} ELSE {}
    IN  (IF NetworkID # NoID
         THEN {[err |-> nil, NetworkID |-> NetworkID,
                ops |-> {"NetworkInspect"}, failedOps |-> {}]}
         ELSE {})
        \cup
        {[err |-> nil, NetworkID |-> FreshID("gompose-network"),
          ops |-> {"NetworkCreate"} \cup inspected, failedOps |-> inspected],
         [err |-> "network", NetworkID |-> NetworkID,
          ops |-> {"NetworkCreate"} \cup inspected,
          failedOps |-> {"NetworkCreate"} \cup inspected]}

\* the name the engine gives the volume it creates now (VolumeCreate is called
\* without a name): one per volume of the store
VolumeName ==
    CASE Cardinality(DOMAIN Volumes) = 0 -> "volume0"
      [] Cardinality(DOMAIN Volumes) = 1 -> "volume1"
      [] OTHER                           -> "volume2"

\* what VolumeCreate returns and createDockerVolume stores
volumeCreated(vol) ==
    {[err |-> nil, Volumes |-> Put(Volumes, vol.Source, FreshID(VolumeName)),
      ops |-> {"VolumeCreate"}, failedOps |-> {}],
     [err |-> "volume", Volumes |-> Volumes, ops |-> {"VolumeCreate"},
      failedOps |-> {"VolumeCreate"}]}

createDockerVolumeAlways(vol) == volumeCreated(vol)

\* createDockerVolume: VolumeCreate only for a source not registered yet
createDockerVolume(vol) ==
    IF vol.Source \in DOMAIN Volumes
    THEN {[err |-> nil, Volumes |-> Volumes, ops |-> {}, failedOps |-> {}]}
    ELSE volumeCreated(vol)

\* the orders in which a range over a map may visit its keys
Orders(S) == {f \in [1..Cardinality(S) -> S] : Range(f) = S}

RECURSIVE ServiceVolumes(_, _)
ServiceVolumes(svcs, ord) ==
    IF ord = <<>> THEN <<>>
    ELSE svcs[Head(ord)].Volumes \o ServiceVolumes(svcs, Tail(ord))

\* a call may fail only while the behaviour's budget of faults lasts
Fault(failed) ==
    /\ failed => faults < MaxFaults
    /\ faults' = IF failed THEN faults + 1 ELSE faults

ResetHist ==
    /\ launched' = {}
    /\ sent' = {}
    /\ runningBefore' = {n \in Names : IsServiceRunning(n)}
    /\ engineOps' = {}
    /\ failedOps' = {}
    /\ storeBefore' = Store
    /\ completed' = {}
    /\ attempted' = {}
    /\ builders' = EmptyMap
    /\ parsed' = {}

\* App.start up to yaml.Unmarshal: ReadFile's error returns at once; a document
\* that does not parse leaves definition.Services empty
appStart ==
    /\ pc = "idle"
    /\ runs < MaxRuns
    /\ \E read \in {"ok", "noparse", "nofile"} :
          /\ Fault(read # "ok")
          /\ services' = IF read = "ok" THEN definition ELSE EmptyMap
          /\ errs' = IF read = "nofile" THEN <<>>
                     ELSE <<IF read = "ok" THEN nil ELSE "yaml">>
          /\ retErr' = IF read = "nofile" THEN "readfile" ELSE nil
          /\ pc' = IF read = "nofile" THEN "Wait" ELSE "createNetworks"
    /\ unvisited' = {}
    /\ loopName' = ""
    /\ cur' = nilfn
    /\ task' = [n \in Names |-> NoTask]
    /\ ResetHist
    /\ cmd' = "start"
    /\ UNCHANGED <<definition, store, wg, coordv, volQueue, runs, lockFile, volCreates,
                   stops, req>>

appCreateNetworks ==
    /\ pc = "createNetworks"
    /\ \E o \in createNetworks :
          /\ NetworkID' = o.NetworkID
          /\ errs' = Append(errs, o.err)
          /\ engineOps' = engineOps \cup o.ops
          /\ failedOps' = failedOps \cup o.failedOps
          /\ Fault(o.failedOps # {})
    /\ pc' = "registerVolumes"
    /\ UNCHANGED <<definition, Volumes, Containers, Processes, wg, coordv, retErr, loopv,
                   volQueue, runs, task, lockFile, launched, sent, runningBefore,
                   storeBefore, completed,
                   attempted, cmd, builders, parsed, volCreates, stops, req>>

\* registerVolumes: the range over the services, in some order
registerVolumes ==
    /\ pc = "registerVolumes"
    /\ \E ord \in Orders(DOMAIN services) : volQueue' = ServiceVolumes(services, ord)
    /\ pc' = "createServiceVolumes"
    /\ UNCHANGED <<faults, definition, store, wg, coordv, errs, retErr, loopv, runs, task, lockFile, hist,
                   stops, req>>

\* createServiceVolumes: one volume spec; the first error ends registerVolumes
createServiceVolumes ==
    /\ pc = "createServiceVolumes"
    /\ IF volQueue = <<>>
       THEN /\ errs' = Append(errs, nil)
            /\ pc' = "createProcesses"
            /\ UNCHANGED <<Volumes, volQueue, engineOps, failedOps, faults, parsed,
                           volCreates>>
       ELSE LET r == NewVolume(Head(volQueue))
            IN  /\ parsed' = parsed \cup {[volumeString |-> Head(volQueue),
                                           vol |-> r.vol, err |-> r.err]}
                /\ IF r.err # nil
                   THEN /\ errs' = Append(errs, r.err)
                        /\ pc' = "createProcesses"
                        /\ volQueue' = <<>>
                        /\ UNCHANGED <<Volumes, engineOps, failedOps, faults, volCreates>>
                   ELSE \E o \in createDockerVolume(r.vol) :
                           /\ Volumes' = o.Volumes
                           /\ engineOps' = engineOps \cup o.ops
                           /\ failedOps' = failedOps \cup o.failedOps
                           /\ Fault(o.failedOps # {})
                           /\ volCreates' =
                                 IF "VolumeCreate" \in o.ops
                                 THEN volCreates \cup {[source |-> r.vol.Source,
                                                        ok |-> o.err = nil,
                                                        gen |-> runs + 1]}
                                 ELSE volCreates
                           /\ IF o.err # nil
                              THEN /\ errs' = Append(errs, o.err)
                                   /\ pc' = "createProcesses"
                                   /\ volQueue' = <<>>
                              ELSE /\ errs' = errs
                                   /\ pc' = "createServiceVolumes"
                                   /\ volQueue' = Tail(volQueue)
    /\ UNCHANGED <<definition, NetworkID, Containers, Processes, wg, coordv, retErr,
                   loopv, runs, task, lockFile, launched, sent, runningBefore,
                   storeBefore, completed,
                   attempted, cmd, builders, stops, req>>

\* ------------------------------------------------- createProcesses
\* createProcesses, line 394: app.wg.Add(len(services))
createProcesses ==
    /\ pc = "createProcesses"
    /\ wg' = wg + Cardinality(DOMAIN services)
    /\ unvisited' = DOMAIN services
    /\ pc' = "loop"
    /\ UNCHANGED <<faults, definition, store, coordv, errs, retErr, services, loopName, cur,
                   volQueue, runs, task, lockFile, hist,
                   stops, req>>

\* createProcesses, lines 397-400: wg.Done() once, then the error is returned
wgAfterCreateErrorNoDone(w) == w

wgAfterCreateError(w) == w - 1

launchInlineNever(service) == FALSE

\* createProcesses, line 401: a service without dependencies is launched on the
\* caller's task
launchInline(service) == Len(service.DependsOn) = 0

\* One iteration of the range loop: the loop variables are set, createProcess is
\* called; on its error the loop is left; a service without dependencies goes on
\* to invokeStart on the caller's task; for any other a goroutine is spawned.
createProcessesLoop ==
    /\ pc = "loop"
    /\ \E n \in unvisited :
        \E o \in createProcess(n, services[n]) :
          /\ loopName' = n
          /\ unvisited' = unvisited \ {n}
          /\ Containers' = o.Containers
          /\ engineOps' = engineOps \cup o.ops
          /\ failedOps' = failedOps \cup o.failedOps
          /\ builders' = IF "ContainerCreate" \in o.ops
                         THEN Put(builders, n, ContainerBuilder(n, services[n], Volumes))
                         ELSE builders
          /\ Fault(o.failedOps # {})
          /\ IF o.err # nil
             THEN /\ wg' = wgAfterCreateError(wg)
                  /\ errs' = Append(errs, o.err)
                  /\ completed' = completed \cup {n}
                  /\ pc' = "ps"
                  /\ UNCHANGED <<cur, task>>
             ELSE IF launchInline(services[n])
             THEN /\ cur' = o.start
                  /\ pc' = "invokeStart"
                  /\ UNCHANGED <<wg, errs, completed, task>>
             ELSE /\ task' = [task EXCEPT ![n] =
                                 [NoTask EXCEPT !.pc = "spawned", !.start = o.start]]
                  /\ pc' = "loop"
                  /\ UNCHANGED <<wg, errs, completed, cur>>
    /\ UNCHANGED <<definition, Volumes, NetworkID, Processes, coordv, retErr, services,
                   volQueue, runs, lockFile, launched, sent, runningBefore, storeBefore,
                   attempted, cmd, parsed, volCreates, stops, req>>

\* the range is over: return nil
createProcessesReturn ==
    /\ pc = "loop"
    /\ unvisited = {}
    /\ errs' = Append(errs, nil)
    /\ pc' = "ps"
    /\ UNCHANGED <<faults, definition, store, wg, coordv, retErr, loopv, volQueue, runs, task, lockFile, hist,
                   stops, req>>

\* app.ps(writer) returns nil and start returns HandleErrors(ReturnError, ...)
ps ==
    /\ pc = "ps"
    /\ retErr' = HandleErrors("ReturnError", Append(errs, nil))
    /\ errs' = Append(errs, nil)
    /\ pc' = "Wait"
    /\ UNCHANGED <<faults, definition, store, wg, coordv, loopv, volQueue, runs, task,
                   faults, lockFile, hist,
                   stops, req>>

\* invokeStart on the caller's task, line 424: app.serviceDone <- name, received
\* by the coordinator in its select
invokeStartSend ==
    /\ pc = "invokeStart"
    /\ coord.pc = "select"
    /\ coord' = coordDone(loopName)
    /\ sent' = sent \cup {<<loopName, loopName>>}
    /\ pc' = "startClosure"
    /\ UNCHANGED <<faults, definition, store, wg, dependants, signalled, errs, retErr, loopv,
                   volQueue, runs, task, lockFile, launched, runningBefore,
                   engineOps, failedOps, storeBefore, completed,
                   attempted, cmd, builders, parsed, volCreates, stops, req>>

\* invokeStart on the caller's task, lines 425-429: start(), the log, wg.Done()
invokeStartRun ==
    /\ pc = "startClosure"
    /\ \E r \in startClosure(cur) :
          /\ Containers' = r.Containers
          /\ Processes' = r.Processes
          /\ engineOps' = engineOps \cup r.ops
          /\ failedOps' = failedOps \cup r.failedOps
          /\ Fault(r.failedOps # {})
          /\ wg' = wgAfterInvokeStart(wg, r.err)
    /\ launched' = launched \cup {loopName}
    /\ completed' = completed \cup {loopName}
    /\ pc' = "loop"
    /\ UNCHANGED <<definition, Volumes, NetworkID, coordv, errs, retErr, loopv, volQueue,
                   runs, task, lockFile, sent, runningBefore, storeBefore,
                   attempted, cmd, builders, parsed, volCreates, stops, req>>

\* ------------------------------------------- the spawned goroutines
\* The goroutine evaluates the arguments of waitForDependencies(service, name):
\* it reads the loop variable service, which the range loop of the caller
\* overwrites at each iteration.
loopService == services[loopName]

taskArgs(g) ==
    /\ task[g].pc = "spawned"
    /\ task' = [task EXCEPT ![g].pc = "check", ![g].deps = loopService.DependsOn,
                            ![g].i = 1]
    /\ UNCHANGED <<faults, definition, store, wg, coordv, pc, errs, retErr, loopv, volQueue,
                   runs, lockFile, hist,
                   stops, req>>

\* waitForDependencies, lines 414-417: a dependency that is RUNNING in the store
\* is skipped, for any other a Dependency is made
taskCheck(g) ==
    /\ task[g].pc = "check"
    /\ task[g].i <= Len(task[g].deps)
    /\ LET srv == task[g].deps[task[g].i]
       IN  IF IsServiceRunning(srv)
           THEN task' = [task EXCEPT ![g].i = @ + 1]
           ELSE task' = [task EXCEPT ![g].pc = "AddDependency",
                                     ![g].dep = NewDependency(srv, g, task[g].i)]
    /\ UNCHANGED <<faults, definition, store, wg, coordv, pc, errs, retErr, loopv, volQueue,
                   runs, lockFile, hist,
                   stops, req>>

\* AddDependency: app.dependants <- d, received by the coordinator in its select
taskAddDependency(g) ==
    /\ task[g].pc = "AddDependency"
    /\ coord.pc = "select"
    /\ dependants' = coordRegister(task[g].dep)
    /\ task' = [task EXCEPT ![g].pc = "Wait"]
    /\ UNCHANGED <<faults, definition, store, wg, coord, signalled, pc, errs, retErr, loopv,
                   volQueue, runs, lockFile, hist,
                   stops, req>>

\* Dependency.Wait: <-d.channel, sent by the coordinator's d.channel <- true
taskWait(g) ==
    /\ task[g].pc = "Wait"
    /\ coord.pc = "signal"
    /\ dependants[coord.idx] = task[g].dep
    /\ coord' = coordSignalled
    /\ signalled' = signalled \cup {task[g].dep}
    /\ task' = [task EXCEPT ![g].pc = "check", ![g].i = @ + 1]
    /\ UNCHANGED <<faults, definition, store, wg, dependants, pc, errs, retErr, loopv, volQueue,
                   runs, lockFile, hist,
                   stops, req>>

\* the goroutine calls invokeStart(start, name): it reads the loop variable name
invokeName(g) == loopName

taskCall(g) ==
    /\ task[g].pc = "check"
    /\ task[g].i > Len(task[g].deps)
    /\ task' = [task EXCEPT ![g].pc = "invokeStart", ![g].name = invokeName(g)]
    /\ UNCHANGED <<faults, definition, store, wg, coordv, pc, errs, retErr, loopv, volQueue,
                   runs, lockFile, hist,
                   stops, req>>

taskSend(g) ==
    /\ task[g].pc = "invokeStart"
    /\ coord.pc = "select"
    /\ coord' = coordDone(task[g].name)
    /\ sent' = sent \cup {<<g, task[g].name>>}
    /\ task' = [task EXCEPT ![g].pc = "startClosure"]
    /\ UNCHANGED <<faults, definition, store, wg, dependants, signalled, pc, errs, retErr, loopv,
                   volQueue, runs, lockFile, launched, runningBefore,
                   engineOps, failedOps, storeBefore, completed,
                   attempted, cmd, builders, parsed, volCreates, stops, req>>

taskRun(g) ==
    /\ task[g].pc = "startClosure"
    /\ \E r \in startClosure(task[g].start) :
          /\ Containers' = r.Containers
          /\ Processes' = r.Processes
          /\ engineOps' = engineOps \cup r.ops
          /\ failedOps' = failedOps \cup r.failedOps
          /\ Fault(r.failedOps # {})
          /\ wg' = wgAfterInvokeStart(wg, r.err)
    /\ launched' = launched \cup {g}
    /\ completed' = completed \cup {g}
    /\ task' = [task EXCEPT ![g].pc = "done"]
    /\ UNCHANGED <<definition, Volumes, NetworkID, coordv, pc, errs, retErr, loopv,
                   volQueue, runs, lockFile, sent, runningBefore, storeBefore,
                   attempted, cmd, builders, parsed, volCreates, stops, req>>

\* ------------------------------------------- accesses to the maps
\* an access a task is about to make to a map of the store
Access(map, write) == [map |-> map, write |-> write]

\* the map a start closure stores into when its engine or OS call succeeds
closureWrites(closure) ==
    CASE closure.kind = "exec"    -> {Access("Processes", TRUE)}
      [] closure.kind = "restart" -> {Access("Containers", TRUE)}
      [] OTHER                    -> {}

\* createProcess(name, service): createExecProcess looks name up in Processes;
\* createContainer looks it up in Containers and createNewContainer stores the
\* record of a name that has none
createProcessAccesses(name, service) ==
    IF DriverFromString(service.Driver) = EXEC
    THEN {Access("Processes", FALSE)}
    ELSE {Access("Containers", FALSE)}
         \cup (IF name \in DOMAIN Containers THEN {} ELSE {Access("Containers", TRUE)})

\* IsServiceRunning: Containers is looked up, and Processes unless the container
\* record is RUNNING
IsServiceRunningAccesses(service) ==
    {Access("Containers", FALSE)}
        \cup (IF service \in DOMAIN Containers /\ Containers[service].Status = RUNNING
              THEN {} ELSE {Access("Processes", FALSE)})

\* the accesses the caller's task is about to make: createProcess in the range
\* loop, the closure in invokeStart, the ranges of ps
callerAccesses ==
    CASE pc = "loop" ->
            UNION {createProcessAccesses(n, services[n]) : n \in unvisited}
      [] pc = "startClosure" -> closureWrites(cur)
      [] pc = "ps" -> {Access("Containers", FALSE), Access("Processes", FALSE)}
      [] OTHER -> {}

\* the accesses the goroutine spawned for g is about to make: IsServiceRunning
\* in waitForDependencies, the closure in invokeStart
taskAccesses(g) ==
    CASE task[g].pc = "check" /\ task[g].i <= Len(task[g].deps) ->
            IsServiceRunningAccesses(task[g].deps[task[g].i])
      [] task[g].pc = "startClosure" -> closureWrites(task[g].start)
      [] OTHER -> {}

\* the accesses the second request's task is about to make: the ranges of ps,
\* json.Marshal(app) in Save
requestAccesses ==
    IF req \in {"Run", "Save"}
    THEN {Access("Containers", FALSE), Access("Processes", FALSE)}
    ELSE {}

Tasks == {"caller", "request"} \cup Names

Accesses(t) ==
    CASE t = "caller"  -> callerAccesses
      [] t = "request" -> requestAccesses
      [] OTHER         -> taskAccesses(t)

\* two tasks are about to access the same map, one of them at least storing
\* into it, and nothing orders the two accesses (no lock guards the maps)
Conflict(t, u) ==
    /\ t # u
    /\ \E x \in Accesses(t), y \in Accesses(u) : x.map = y.map /\ (x.write \/ y.write)

\* The Go runtime ends the process ("fatal error: concurrent map writes",
\* "concurrent map read and map write") when it detects two such accesses
\* overlapping; when it does not, the accesses take effect in some order.  The
\* commands after such an end are not followed.
fatalConcurrentMapAccess ==
    /\ \E t, u \in Tasks : Conflict(t, u)
    /\ pc' = "fatal"
    /\ task' = [n \in Names |-> NoTask]
    /\ req' = IF req = "idle" THEN req ELSE "fatal"
    /\ UNCHANGED <<faults, definition, store, wg, coordv, errs, retErr, loopv, volQueue,
                   runs, lockFile, hist, stops>>

\* ------------------------------------------------------ stop / clean
\* an engine or OS call on the resource id, kept under key in the store
Call(op, key, id) == [op |-> op, key |-> key, id |-> id]

\* a call with what it returned
Result(call, failed) == [call |-> call, ok |-> call \notin failed]

stopContainerInStoreKeep(proc) == proc

\* stopContainerInStore: proc.Status = STOPPED, stored under the record's name
stopContainerInStore(proc) == [proc EXCEPT !.Status = STOPPED]

\* what stopContainer returns and stores for a record
StopOutcome(err, proc, calls, failed) ==
    [err |-> err, proc |-> proc, calls |-> calls, failed |-> failed]

\* stopContainer: ContainerStop with the grace period for a record without stop
\* signal; else ContainerKill with the signal and, when that fails, with SIGKILL
stopContainer(name, proc) ==
    IF proc.StopSignal = ""
    THEN { StopOutcome(nil, stopContainerInStore(proc),
                       {Call("ContainerStop", name, proc.ID)}, {}),
           StopOutcome("stop", proc,
                       {Call("ContainerStop", name, proc.ID)},
                       {Call("ContainerStop", name, proc.ID)}) }
    ELSE { StopOutcome(nil, stopContainerInStore(proc),
                       {Call("ContainerKill", name, proc.ID)}, {}),
           StopOutcome(nil, stopContainerInStore(proc),
                       {Call("ContainerKill", name, proc.ID),
                        Call("ContainerKillSIGKILL", name, proc.ID)},
                       {Call("ContainerKill", name, proc.ID)}),
           StopOutcome("kill", proc,
                       {Call("ContainerKill", name, proc.ID),
                        Call("ContainerKillSIGKILL", name, proc.ID)},
                       {Call("ContainerKill", name, proc.ID),
                        Call("ContainerKillSIGKILL", name, proc.ID)}) }

\* the outcomes of stopContainer over the records of a range over containers
StopChoices(containers) ==
    {f \in [DOMAIN containers ->
                UNION {stopContainer(n, containers[n]) : n \in DOMAIN containers}] :
        \A n \in DOMAIN containers : f[n] \in stopContainer(n, containers[n])}

\* stopProcesses, one record: os.FindProcess and, with an on-stop command, its
\* exec.Command(...).Start()
ProcessOutcomes(proc) ==
    {[find |-> f, onstop |-> o] :
        f \in {"ok", "err"},
        o \in IF proc.OnStop = "" THEN {"none"} ELSE {"ok", "err"}}

\* stopProcesses deletes the record when FindProcess returns no error, and when
\* the on-stop command has started
processDeleted(o) == o.find = "ok" \/ o.onstop = "ok"

ProcessCalls(name, proc, o) ==
    {Call("FindProcess", name, proc.PID)}
        \cup (IF o.onstop = "none" THEN {} ELSE {Call("OnStop", name, proc.PID)})

ProcessFailed(name, proc, o) ==
    (IF o.find = "err" THEN {Call("FindProcess", name, proc.PID)} ELSE {})
        \cup (IF o.onstop = "err" THEN {Call("OnStop", name, proc.PID)} ELSE {})

ProcessChoices(processes) ==
    {f \in [DOMAIN processes ->
                UNION {ProcessOutcomes(processes[n]) : n \in DOMAIN processes}] :
        \A n \in DOMAIN processes : f[n] \in ProcessOutcomes(processes[n])}

\* app.Processes after stopProcesses
stopProcesses(processes, po) ==
    [n \in {x \in DOMAIN processes : ~processDeleted(po[x])} |-> processes[n]]

\* the start's locals and the histories at the beginning of a stop or clean
ResetStart ==
    /\ services' = EmptyMap
    /\ unvisited' = {}
    /\ loopName' = ""
    /\ cur' = nilfn
    /\ task' = [n \in Names |-> NoTask]
    /\ errs' = <<>>
    /\ retErr' = nil
    /\ launched' = {}
    /\ sent' = {}
    /\ completed' = {}
    /\ runningBefore' = {n \in Names : IsServiceRunning(n)}
    /\ storeBefore' = Store
    /\ builders' = EmptyMap
    /\ parsed' = {}

\* App.stop: stopContainer over app.Containers, errors logged, then
\* stopProcesses; returns nil
appStop ==
    /\ pc = "idle"
    /\ stops < MaxStops
    /\ \E cs \in StopChoices(Containers), po \in ProcessChoices(Processes) :
          LET calls == UNION {cs[n].calls : n \in DOMAIN Containers}
                         \cup UNION {ProcessCalls(n, Processes[n], po[n]) :
                                        n \in DOMAIN Processes}
              failed == UNION {cs[n].failed : n \in DOMAIN Containers}
                         \cup UNION {ProcessFailed(n, Processes[n], po[n]) :
                                        n \in DOMAIN Processes}
              failing == Cardinality({c.key : c \in failed})
          IN  /\ faults + failing <= MaxFaults
              /\ faults' = faults + failing
              /\ Containers' = [n \in DOMAIN Containers |-> cs[n].proc]
              /\ Processes' = stopProcesses(Processes, po)
              /\ attempted' = {Result(c, failed) : c \in calls}
              /\ engineOps' = {c.op : c \in calls}
              /\ failedOps' = {c.op : c \in failed}
    /\ ResetStart
    /\ cmd' = "stop"
    /\ pc' = "Wait"
    /\ UNCHANGED <<definition, Volumes, NetworkID, wg, coordv, volQueue, runs, lockFile,
                   volCreates, stops, req>>

\* clean, lines 258-269: delete(app.Containers, name) follows ContainerRemove
\* whatever it returned
removeContainerUnlessError(containers, name, err) ==
    IF err # nil THEN containers
    ELSE [n \in DOMAIN containers \ {name} |-> containers[n]]

removeContainer(containers, name, err) ==
    [n \in DOMAIN containers \ {name} |-> containers[n]]

\* clean's range over app.Containers in the order ord; failed are the calls
\* that return an error
RECURSIVE cleanContainers(_, _, _)
cleanContainers(containers, ord, failed) ==
    IF ord = <<>> THEN containers
    ELSE LET name == Head(ord)
             call == Call("ContainerRemove", name, containers[name].ID)
         IN  cleanContainers(
                 removeContainer(containers, name,
                                 IF call \in failed THEN "remove" ELSE nil),
                 Tail(ord), failed)

\* clean, lines 271-279: app.NetworkID = "" follows NetworkRemove
removeNetwork(id, err) == NoID

\* clean, lines 281-290: delete(app.Volumes, name) follows VolumeRemove
removeVolume(volumes, name, err) ==
    [n \in DOMAIN volumes \ {name} |-> volumes[n]]

RECURSIVE cleanVolumes(_, _, _)
cleanVolumes(volumes, ord, failed) ==
    IF ord = <<>> THEN volumes
    ELSE LET name == Head(ord)
             call == Call("VolumeRemove", name, volumes[name])
         IN  cleanVolumes(
                 removeVolume(volumes, name,
                              IF call \in failed THEN "remove" ELSE nil),
                 Tail(ord), failed)

\* the remove calls clean makes on the store
RemoveCalls ==
    {Call("ContainerRemove", n, Containers[n].ID) : n \in DOMAIN Containers}
        \cup (IF NetworkID # NoID
              THEN {Call("NetworkRemove", <<"network">>, NetworkID)} ELSE {})
        \cup {Call("VolumeRemove", n, Volumes[n]) : n \in DOMAIN Volumes}

\* App.clean: stopProcesses, then every container is stopped, removed and
\* deleted, the network removed and forgotten, every volume removed and deleted;
\* every error is logged
appClean ==
    /\ pc = "idle"
    /\ stops < MaxStops
    /\ \E cs \in StopChoices(Containers), po \in ProcessChoices(Processes),
          rm \in SUBSET RemoveCalls,
          cord \in Orders(DOMAIN Containers), vord \in Orders(DOMAIN Volumes) :
          LET calls == UNION {cs[n].calls : n \in DOMAIN Containers}
                         \cup UNION {ProcessCalls(n, Processes[n], po[n]) :
                                        n \in DOMAIN Processes}
                         \cup RemoveCalls
              failed == UNION {cs[n].failed : n \in DOMAIN Containers}
                         \cup UNION {ProcessFailed(n, Processes[n], po[n]) :
                                        n \in DOMAIN Processes}
              failing == Cardinality({c.key : c \in failed}) + Cardinality(rm)
          IN  /\ faults + failing <= MaxFaults
              /\ faults' = faults + failing
              /\ Processes' = stopProcesses(Processes, po)
              /\ Containers' = cleanContainers(
                                   [n \in DOMAIN Containers |-> cs[n].proc], cord, rm)
              /\ NetworkID' = IF NetworkID # NoID
                              THEN removeNetwork(NetworkID,
                                       IF Call("NetworkRemove", <<"network">>, NetworkID) \in rm
                                       THEN "remove" ELSE nil)
                              ELSE NetworkID
              /\ Volumes' = cleanVolumes(Volumes, vord, rm)
              /\ attempted' = {Result(c, failed \cup rm) : c \in calls}
              /\ engineOps' = {c.op : c \in calls}
              /\ failedOps' = {c.op : c \in failed \cup rm}
    /\ ResetStart
    /\ cmd' = "clean"
    /\ volCreates' = {}
    /\ pc' = "Wait"
    /\ UNCHANGED <<definition, wg, coordv, volQueue, runs, lockFile, stops, req>>

\* ------------------------------------------------ after the command
\* App.Wait: app.wg.Wait() returns when the counter is zero
WaitNoBarrier ==
    /\ pc = "Wait"
    /\ pc' = "Save"
    /\ UNCHANGED <<faults, definition, store, wg, coordv, errs, retErr, loopv, volQueue, runs,
                   task, lockFile, hist,
                   stops, req>>

Wait ==
    /\ pc = "Wait"
    /\ wg = 0
    /\ pc' = "Save"
    /\ UNCHANGED <<faults, definition, store, wg, coordv, errs, retErr, loopv, volQueue, runs,
                   task, lockFile, hist,
                   stops, req>>

\* App.Save: the store is written to .gompose.lock
Save ==
    /\ pc = "Save"
    /\ lockFile' = [present |-> TRUE, data |-> Marshal(Store)]
    /\ runs' = IF cmd = "start" THEN runs + 1 ELSE runs
    /\ stops' = IF cmd = "start" THEN stops ELSE stops + 1
    /\ pc' = "idle"
    /\ UNCHANGED <<faults, definition, store, wg, coordv, errs, retErr, loopv, volQueue,
                   task, hist, req>>

\* The command line front end: the process ends after Save and the next command
\* is a new process, whose NewApp loads the store from the lock file and makes
\* the coordinator anew (loadLockFile).  The HTTP server keeps its App.
NewApp ==
    /\ pc = "idle"
    /\ lockFile.present
    /\ dependants # <<>>
    /\ LET loaded == createAppFromLockFile(lockFile).app
       IN  /\ Volumes' = loaded.Volumes
           /\ NetworkID' = loaded.NetworkID
           /\ Containers' = loaded.Containers
           /\ Processes' = loaded.Processes
    /\ dependants' = <<>>
    /\ coord' = [pc |-> "select", service |-> "", idx |-> 0]
    /\ signalled' = {}
    /\ UNCHANGED <<faults, definition, wg, pc, errs, retErr, loopv, volQueue, runs, task,
                   faults, lockFile, hist,
                   stops, req>>

\* the documents that differ from d in the driver of some service only
DriverChanges(d) ==
    {e \in Definitions :
        /\ e # d
        /\ DOMAIN e = DOMAIN d
        /\ \A n \in DOMAIN d : e[n] = [d[n] EXCEPT !.Driver = e[n].Driver]}

\* Between two commands the document is replaced (config.yaml is edited, the
\* next request carries another body) by one with another driver for a service.
changeDefinition ==
    /\ pc = "idle"
    /\ runs >= 1
    /\ definition' \in DriverChanges(definition)
    /\ UNCHANGED <<faults, store, wg, coordv, pc, errs, retErr, loopv, volQueue, runs, task,
                   lockFile, hist, stops, req>>

Next ==
    \/ appStart
    \/ appCreateNetworks
    \/ registerVolumes
    \/ createServiceVolumes
    \/ createProcesses
    \/ createProcessesLoop
    \/ createProcessesReturn
    \/ ps
    \/ invokeStartSend
    \/ invokeStartRun
    \/ \E g \in Names : taskArgs(g)
    \/ \E g \in Names : taskCheck(g)
    \/ \E g \in Names : taskAddDependency(g)
    \/ \E g \in Names : taskWait(g)
    \/ \E g \in Names : taskCall(g)
    \/ \E g \in Names : taskSend(g)
    \/ \E g \in Names : taskRun(g)
    \/ fatalConcurrentMapAccess
    \/ appStop
    \/ appClean
    \/ Wait
    \/ Save
    \/ NewApp
    \/ changeDefinition

Spec == Init /\ [][Next]_vars

\* ---------------------------------------------------- the HTTP server
\* net/http serves each request on its own goroutine, and Server.config takes
\* no lock: while the caller's task handles one /config request on the
\* server's App, a second request (cmd=ps) is handled beside it.
\* Server.config, second request: the handler is entered
requestArrives ==
    /\ req = "idle"
    /\ req' = "Run"
    /\ UNCHANGED <<faults, definition, store, wg, coordv, pc, errs, retErr, loopv,
                   volQueue, runs, task, lockFile, hist, stops>>

\* RunWithDefinition("ps", ...): app.ps ranges over the two maps, returns nil
requestRun ==
    /\ req = "Run"
    /\ req' = "Wait"
    /\ UNCHANGED <<faults, definition, store, wg, coordv, pc, errs, retErr, loopv,
                   volQueue, runs, task, lockFile, hist, stops>>

\* server.app.Wait() of the second request: wg.Wait() on the shared WaitGroup
requestWait ==
    /\ req = "Wait"
    /\ wg = 0
    /\ req' = "Save"
    /\ UNCHANGED <<faults, definition, store, wg, coordv, pc, errs, retErr, loopv,
                   volQueue, runs, task, lockFile, hist, stops>>

\* server.app.Save() of the second request
requestSave ==
    /\ req = "Save"
    /\ lockFile' = [present |-> TRUE, data |-> Marshal(Store)]
    /\ req' = "done"
    /\ UNCHANGED <<faults, definition, store, wg, coordv, pc, errs, retErr, loopv,
                   volQueue, runs, task, hist, stops>>

\* the server: start requests on the caller's task, the App is kept between
\* them; one more request beside them
NextServer ==
    \/ appStart
    \/ appCreateNetworks
    \/ registerVolumes
    \/ createServiceVolumes
    \/ createProcesses
    \/ createProcessesLoop
    \/ createProcessesReturn
    \/ ps
    \/ invokeStartSend
    \/ invokeStartRun
    \/ \E g \in Names : taskArgs(g)
    \/ \E g \in Names : taskCheck(g)
    \/ \E g \in Names : taskAddDependency(g)
    \/ \E g \in Names : taskWait(g)
    \/ \E g \in Names : taskCall(g)
    \/ \E g \in Names : taskSend(g)
    \/ \E g \in Names : taskRun(g)
    \/ fatalConcurrentMapAccess
    \/ Wait
    \/ Save
    \/ requestArrives
    \/ requestRun
    \/ requestWait
    \/ requestSave

SpecServer == Init /\ [][NextServer]_vars

\* ------------------------------------------------------------ claims
\* the names the coordinator has received on serviceDone in this run
received == {p[2] : p \in sent}

\* every dependency name of the running start is a declared service
AllDeclared == \A n \in DOMAIN services : Range(services[n].DependsOn) \subseteq DOMAIN services

\* the services whose own invokeStart has performed its serviceDone send
invokeBegun == {p[1] : p \in sent}

\* C1: over a declared service set, a service's launch action never begins
\* before, for every name A in its depends_on list, A's own invokeStart has begun
\* or the coordinator has received A's name on serviceDone in this run, or A was
\* RUNNING before the run started.
C1_LaunchAfterDependencies ==
    AllDeclared =>
        \A B \in launched :
            \A A \in Range(services[B].DependsOn) :
                A \in invokeBegun \/ A \in received \/ A \in runningBefore

\* the declared services n transitively depends on
RECURSIVE DependsOnWithin(_, _, _)
DependsOnWithin(svcs, S, k) ==
    IF k = 0 THEN S
    ELSE DependsOnWithin(svcs,
             S \cup {d \in DOMAIN svcs : \E x \in S : d \in Range(svcs[x].DependsOn)},
             k - 1)

TransitiveDeps(svcs, n) ==
    DependsOnWithin(svcs, {d \in DOMAIN svcs : d \in Range(svcs[n].DependsOn)},
                    Cardinality(DOMAIN svcs))

Acyclic(svcs) == \A n \in DOMAIN svcs : n \notin TransitiveDeps(svcs, n)

Declared(svcs) == \A n \in DOMAIN svcs : Range(svcs[n].DependsOn) \subseteq DOMAIN svcs

AllLaunchedAndRunning ==
    /\ launched = DOMAIN services
    /\ \A n \in DOMAIN services : IsServiceRunning(n)

\* a start is between its first createProcesses iteration and the return of Wait
RunPending == pc \in {"loop", "invokeStart", "startClosure", "ps", "Wait"}

\* C2: for an acyclic service graph whose dependency names are all declared, in
\* a run in which every engine and process call succeeds, the run never comes to
\* a state from which no task can take a step before App.Wait has returned (no
\* task stays blocked in Dependency.Wait forever), and when Wait has returned
\* every declared service has had its launch action run and its record RUNNING.
C2_EveryServiceLaunches ==
    (services # EmptyMap /\ Acyclic(services) /\ Declared(services) /\ failedOps = {})
        => /\ RunPending => ENABLED Next
           /\ pc = "Save" => AllLaunchedAndRunning

\* C3: while the coordinator processes a ready notification for X, the handle
\* it sends to next was registered for X and its owner is blocked in Wait on it,
\* so that every handle registered for X before the notification is signalled by
\* it (once each, the range visiting each index once) and no other handle is.
C3_NotifySignalsRegistered ==
    coord.pc = "signal" =>
        LET d == dependants[coord.idx]
        IN  /\ d.service = coord.service
            /\ \E g \in Names : task[g].pc = "Wait" /\ task[g].dep = d

\* C4: a handle is consumed at most once: once the coordinator is back in its
\* select no signalled handle is in its list, and it never sends to a handle
\* that has been signalled.
C4_HandleConsumedOnce ==
    /\ coord.pc = "select" => \A i \in 1..Len(dependants) : dependants[i] \notin signalled
    /\ coord.pc = "signal" => dependants[coord.idx] \notin signalled

\* C5: in one run of createProcesses every serviceDone send carries the sending
\* service's own name, no name is sent twice, a service whose start closure has
\* been called has sent its own name before, and when the loop is over every
\* declared service has sent or is about to send its notification.
C5_OneOwnNotification ==
    /\ \A p \in sent : p[1] = p[2]
    /\ \A p, q \in sent : p[2] = q[2] => p = q
    /\ \A n \in launched : <<n, n>> \in sent
    /\ pc = "Save" => \A n \in DOMAIN services : <<n, n>> \in sent

\* a start is between app.wg.Add and the end of the command
AfterAdd == pc \in {"loop", "invokeStart", "startClosure", "ps", "Wait", "Save", "idle"}

\* C6: the barrier counter is never negative; from the Add of createProcesses on
\* it equals the number of declared services of the run whose launch task has not
\* completed; App.Wait can return exactly when it is zero, and has returned only
\* with the counter at zero.
C6_BarrierCountsPending ==
    /\ wg >= 0
    /\ AfterAdd => wg = Cardinality(DOMAIN services \ completed)
    /\ pc = "Wait" => (ENABLED Wait <=> wg = 0)
    /\ pc = "Save" => wg = 0

\* a launch failed in createProcess, its task completed, and the barrier counts
\* the services that are left
C6_Witness ==
    /\ pc = "Wait"
    /\ \E n \in completed : n \notin launched
    /\ wg = Cardinality(DOMAIN services \ completed)
    /\ wg > 0

\* a step in which a start closure is called and returns an error
StartFailed ==
    /\ faults' = faults + 1
    /\ \/ pc = "startClosure" /\ pc' = "loop"
       \/ \E g \in Names : task[g].pc = "startClosure" /\ task'[g].pc = "done"

LaunchErrors == {"create", "pull", "connect", "start"}

\* C8: an engine error of the per-service launch path is never among the errors
\* start collects nor returned by it, the range loop is left only when every
\* declared service has been visited, and once the caller is in App.Wait and
\* every goroutine of the run has finished the barrier is at zero.
C8_LaunchErrorsDoNotAbort ==
    /\ retErr \notin LaunchErrors
    /\ Range(errs) \cap LaunchErrors = {}
    /\ pc \in {"ps", "Wait", "Save"} => unvisited = {}
    /\ (pc = "Wait" /\ \A g \in Names : task[g].pc \in {"none", "done"}) => wg = 0

\* the errors of the setup steps: yaml.Unmarshal, createNetworks, registerVolumes
SetupErrors == {"yaml", "network", "volume", "invalid volume path"}

SetupFailed == Range(errs) \cap SetupErrors # {}

\* C9: once a setup step of start has failed, no start closure is called, no
\* container is created, no notification is sent and no record is added in this
\* run, and start returns a setup error.
C9_SetupErrorLaunchesNothing ==
    SetupFailed =>
        /\ launched = {}
        /\ sent = {}
        /\ engineOps \cap {"ContainerCreate", "ContainerStart", "ProcessStart"} = {}
        /\ DOMAIN Containers = DOMAIN storeBefore.Containers
        /\ DOMAIN Processes = DOMAIN storeBefore.Processes
        /\ pc \in {"Wait", "Save", "idle"} => retErr \in SetupErrors

\* every well-formed volume spec of the declared services was registered when
\* the run started
VolumesRegisteredBefore ==
    \A n \in DOMAIN services : \A i \in 1..Len(services[n].Volumes) :
        LET r == NewVolume(services[n].Volumes[i])
        IN  r.err = nil => r.vol.Source \in DOMAIN storeBefore.Volumes

\* every declared service had a RUNNING record in the map of its driver when
\* the run started
RecordsRunningBefore ==
    \A n \in DOMAIN services :
        LET m == IF DriverFromString(services[n].Driver) = EXEC
                 THEN storeBefore.Processes ELSE storeBefore.Containers
        IN  n \in DOMAIN m /\ m[n].Status = RUNNING

AllRunningBefore ==
    /\ services # EmptyMap
    /\ RecordsRunningBefore
    /\ storeBefore.NetworkID # NoID
    /\ VolumesRegisteredBefore

\* the run made no engine create / start call, spawned no process, and the
\* store is as it was
NothingDone ==
    /\ engineOps \subseteq {"NetworkInspect"}
    /\ Store = storeBefore

NoTaskOutstanding == \A g \in Names : task[g].pc \in {"none", "done"}

\* C11: Save is reached only by the return of App.Wait, with the barrier at
\* zero; while the command is at Save no launch task of it is outstanding, and
\* the state file is written only in that state.
C11_SaveAfterWait ==
    /\ [](pc = "Save" => (wg = 0 /\ NoTaskOutstanding))
    /\ [][(pc' = "Save" /\ pc # "Save") => (pc = "Wait" /\ wg = 0)]_vars
    /\ [][(lockFile' # lockFile \/ runs' # runs)
            => (pc = "Save" /\ wg = 0 /\ NoTaskOutstanding)]_vars

\* a command whose goroutines have all finished is at Save
C11_Witness ==
    /\ pc = "Save"
    /\ \E g \in Names : task[g].pc = "done"
    /\ launched = DOMAIN services

\* the last command has run its handler
CommandDone(c) == cmd = c /\ pc \in {"Wait", "Save", "idle"}

\* the command has made the call, the call has succeeded, the call has failed
Attempted(c) == \E r \in attempted : r.call = c
Succeeded(c) == Result(c, {}) \in attempted
Failed(c) == Result(c, {c}) \in attempted

\* C12: when clean has run, a removal has been attempted for every container of
\* the store it started from, for its network and for every volume, and
\* Containers, NetworkID and Volumes are empty, whichever calls failed.
C12_CleanEmptiesStore ==
    CommandDone("clean") =>
        /\ \A n \in DOMAIN storeBefore.Containers :
              Attempted(Call("ContainerRemove", n, storeBefore.Containers[n].ID))
        /\ storeBefore.NetworkID # NoID =>
              Attempted(Call("NetworkRemove", <<"network">>, storeBefore.NetworkID))
        /\ \A v \in DOMAIN storeBefore.Volumes :
              Attempted(Call("VolumeRemove", v, storeBefore.Volumes[v]))
        /\ Containers = EmptyMap
        /\ NetworkID = NoID
        /\ Volumes = EmptyMap

\* a clean of a store with two containers and a network in which a removal failed
C12_Witness ==
    /\ CommandDone("clean")
    /\ Cardinality(DOMAIN storeBefore.Containers) >= 2
    /\ storeBefore.NetworkID # NoID
    /\ failedOps \cap {"ContainerRemove", "NetworkRemove", "VolumeRemove",
                       "ContainerStop"} # {}
    /\ Containers = EmptyMap

\* the stop mechanism of the record old under name n succeeded in this command:
\* ContainerStop without a stop signal; else the signal or the SIGKILL fallback
StopSucceeded(n, old) ==
    IF old.StopSignal = ""
    THEN Succeeded(Call("ContainerStop", n, old.ID))
    ELSE \/ Succeeded(Call("ContainerKill", n, old.ID))
         \/ /\ Failed(Call("ContainerKill", n, old.ID))
            /\ Succeeded(Call("ContainerKillSIGKILL", n, old.ID))

\* C13: when stop has run it has returned nil; every container record has been
\* visited; a record is STOPPED if its stop mechanism succeeded (ContainerStop
\* without a stop signal; the signal or, after its failure, SIGKILL with one)
\* and has its previous status if it failed; every other field of the record,
\* the keys of Containers, Volumes and NetworkID are as before.
C13_StopMarksStopped ==
    CommandDone("stop") =>
        /\ retErr = nil
        /\ DOMAIN Containers = DOMAIN storeBefore.Containers
        /\ Volumes = storeBefore.Volumes
        /\ NetworkID = storeBefore.NetworkID
        /\ \A n \in DOMAIN storeBefore.Containers :
              LET old == storeBefore.Containers[n]
              IN  /\ Attempted(Call(IF old.StopSignal = "" THEN "ContainerStop"
                                    ELSE "ContainerKill", n, old.ID))
                  /\ Containers[n] = [old EXCEPT !.Status = Containers[n].Status]
                  /\ Containers[n].Status =
                        IF StopSucceeded(n, old) THEN STOPPED ELSE old.Status

\* a stop in which the signal of a record failed and SIGKILL stopped it, and a
\* record without signal was stopped gracefully
C13_Witness ==
    /\ CommandDone("stop")
    /\ \E n \in DOMAIN storeBefore.Containers :
          LET old == storeBefore.Containers[n]
          IN  /\ old.StopSignal # ""
              /\ old.Status = RUNNING
              /\ Failed(Call("ContainerKill", n, old.ID))
              /\ Succeeded(Call("ContainerKillSIGKILL", n, old.ID))
              /\ Containers[n].Status = STOPPED

\* a stop in which the stop of a RUNNING record failed
C13_FailedStop ==
    /\ CommandDone("stop")
    /\ \E n \in DOMAIN storeBefore.Containers :
          /\ storeBefore.Containers[n].Status = RUNNING
          /\ ~StopSucceeded(n, storeBefore.Containers[n])
          /\ Containers[n].Status = RUNNING

\* C14: when stop has run, a process record with an on-stop command is gone
\* from Processes only if the command was started successfully, and is still in
\* Processes if starting the command failed.
C14_ProcessDroppedOnSuccess ==
    CommandDone("stop") =>
        \A n \in DOMAIN storeBefore.Processes :
            LET old == storeBefore.Processes[n]
            IN  old.OnStop # "" =>
                    /\ n \notin DOMAIN Processes => Succeeded(Call("OnStop", n, old.PID))
                    /\ Failed(Call("OnStop", n, old.PID)) => n \in DOMAIN Processes

\* the services whose start closure is called in this step
launchedNow == launched' \ launched

\* C15: in a start, a declared container service whose record was STOPPED when
\* the start began keeps its record and the record's identifier (no container
\* is created for it); the record's status changes only in the step that calls
\* its start closure, to RUNNING when ContainerStart succeeds, and stays STOPPED
\* when it fails.
C15_StoppedIsRestarted ==
    [][(cmd = "start" /\ pc # "idle") =>
        \A n \in DOMAIN storeBefore.Containers :
            LET old == storeBefore.Containers[n]
            IN  (/\ old.Status = STOPPED
                 /\ n \in DOMAIN services
                 /\ DriverFromString(services[n].Driver) # EXEC)
                =>  /\ n \in DOMAIN Containers'
                    /\ Containers'[n] = [old EXCEPT !.Status = Containers'[n].Status]
                    /\ n \in launchedNow =>
                          Containers'[n].Status =
                              IF faults' = faults THEN RUNNING ELSE STOPPED
                    /\ n \notin launchedNow => Containers'[n].Status = Containers[n].Status
      ]_vars

\* a start has restarted a STOPPED container: same identifier, RUNNING again
C15_Witness ==
    /\ cmd = "start"
    /\ \E n \in DOMAIN storeBefore.Containers \cap DOMAIN Containers :
          /\ storeBefore.Containers[n].Status = STOPPED
          /\ n \in launched
          /\ "ContainerCreate" \notin engineOps
          /\ Containers[n].Status = RUNNING
          /\ Containers[n].ID = storeBefore.Containers[n].ID

\* a start in which the restart of a STOPPED container failed
C15_RestartFailed ==
    /\ cmd = "start"
    /\ \E n \in DOMAIN storeBefore.Containers \cap DOMAIN Containers :
          /\ storeBefore.Containers[n].Status = STOPPED
          /\ n \in launched
          /\ "ContainerStart" \in failedOps
          /\ Containers[n].Status = STOPPED

\* C16: no service name is at the same time a key of Containers and a key of
\* Processes.
C16_OneRecordPerName == DOMAIN Containers \cap DOMAIN Processes = {}

\* the declared services with a dependency that is not declared and was not
\* RUNNING in the store when the start began
Undeclared ==
    {n \in DOMAIN services :
        \E d \in Range(services[n].DependsOn) :
            d \notin DOMAIN services /\ d \notin runningBefore}

\* the declared services that are in S or transitively depend on one of S
DependOn(S) ==
    {n \in DOMAIN services : n \in S \/ TransitiveDeps(services, n) \cap S # {}}

\* C17: in a start in which no engine or process call fails, a service with an
\* undeclared dependency never has its start closure called; while there is
\* one App.Wait does not return; and when no task can take a step any more the
\* caller is in App.Wait (start has returned) and every declared service that
\* does not transitively depend on such a service has been launched.
C17_UndeclaredBlocksForever ==
    (cmd = "start" /\ failedOps = {} /\ faults = 0) =>
        /\ Undeclared \cap launched = {}
        /\ pc = "Save" => Undeclared = {}
        /\ (RunPending /\ Undeclared # {} /\ ~ENABLED Next) =>
              /\ pc = "Wait"
              /\ wg > 0
              /\ DOMAIN services \ DependOn(Undeclared) \subseteq launched

\* the declared services that lie on a dependency cycle
OnCycle == {n \in DOMAIN services : n \in TransitiveDeps(services, n)}

\* C18: in a start from a store in which no service on a dependency cycle is
\* RUNNING, the start closure of a service on a cycle is never called.
C18_CycleBlocksForever ==
    (cmd = "start" /\ OnCycle \cap runningBefore = {}) => OnCycle \cap launched = {}

WithProtocol(port) ==
    IF port # <<>> /\ port[Len(port)] \in {"/tcp", "/udp"}
    THEN port
    ELSE Append(port, "/tcp")

PortCallsMade ==
    {c \in UNION {Range(builders[n].calls) : n \in DOMAIN builders} : TRUE}

\* C20: for every port spec hostport:containerport[/proto] NewPortBinding
\* returns a binding whose host port is the part before the colon and whose
\* container port is the part after the colon with its protocol, /tcp when
\* none is given; a string that does not split into exactly two
\* colon-separated parts is rejected with an error.
C20_PortBindingHostBeforeColon ==
    \A c \in PortCallsMade :
        LET parts == Split(c.portStr, ":")
        IN  IF Len(parts) = 2
            THEN /\ c.err = nil
                 /\ c.binding.Host = parts[1]
                 /\ c.binding.Container = WithProtocol(parts[2])
            ELSE c.err # nil

\* the part of C20 that the code keeps: exactly the strings with two
\* colon-separated parts are accepted, and a port without protocol gets /tcp
C20_RejectsMalformed ==
    \A c \in PortCallsMade :
        /\ (c.err = nil) <=> (Len(Split(c.portStr, ":")) = 2)
        /\ c.err = nil => c.binding.Container[Len(c.binding.Container)] \in {"/tcp", "/udp"}

C20_SwappedSeen ==
    \E c \in PortCallsMade :
        /\ c.portStr = Port8080to80
        /\ c.binding.Host = <<"80">>
        /\ c.binding.Container = <<"8080", "/tcp">>

C20_RejectedSeen ==
    \E c \in PortCallsMade : c.portStr \in {PortNoColon, PortTwoColons} /\ c.err # nil


\* C21: NewVolume splits the spec on ':'; two segments give source = first,
\* target = second, read-only false; three segments give source = first,
\* target = second, read-only true exactly when the third segment is "ro"; one
\* segment or more than three give an error and no volume.
C21_NewVolumeParses ==
    \A c \in parsed :
        LET segs == Split(c.volumeString, ":")
        IN  CASE Len(segs) = 2 ->
                    /\ c.err = nil
                    /\ c.vol = [Source |-> segs[1], Target |-> segs[2], ReadOnly |-> FALSE]
              [] Len(segs) = 3 ->
                    /\ c.err = nil
                    /\ c.vol = [Source |-> segs[1], Target |-> segs[2],
                                ReadOnly |-> (segs[3] = <<"r", "o">>)]
              [] OTHER ->
                    /\ c.err # nil
                    /\ c.vol = [Source |-> <<>>, Target |-> <<>>, ReadOnly |-> FALSE]

\* registerVolumes has parsed d:t:ro as read-only, e:t:rw as read-write and has
\* rejected d:t:ro:z
C21_Witness ==
    /\ [volumeString |-> VolRO,
        vol |-> [Source |-> <<"d">>, Target |-> <<"t">>, ReadOnly |-> TRUE],
        err |-> nil] \in parsed
    /\ [volumeString |-> VolRW,
        vol |-> [Source |-> <<"e">>, Target |-> <<"t">>, ReadOnly |-> FALSE],
        err |-> nil] \in parsed
    /\ \E c \in parsed : c.volumeString = VolFour /\ c.err # nil

\* registerVolumes has parsed d:t and, in the same start, rejected the single
\* segment d
C21_TwoAndOneSeen ==
    /\ \E c \in parsed : c.volumeString = VolOk /\ c.err = nil /\ ~c.vol.ReadOnly
    /\ \E c \in parsed : c.volumeString = VolBad /\ c.err # nil


\* the declared services with an empty dependency list
NoDependencies == {n \in DOMAIN services : Len(services[n].DependsOn) = 0}

\* the handles registered with the coordinator in the running start
HandlesOfRun == {d \in Range(dependants) : d.run = runs}

\* C22: a service with an empty dependency list is launched on the caller's
\* task: no goroutine is spawned for it, no Dependency handle is made or
\* registered with the coordinator on its behalf, and its start closure is
\* called by the caller's invokeStart.
C22_NoDependenciesLaunchInline ==
    /\ [](\A n \in NoDependencies :
              /\ task[n] = NoTask
              /\ \A d \in HandlesOfRun : d.owner # n)
    /\ [][\A n \in NoDependencies :
              n \in launchedNow =>
                  /\ pc = "startClosure" /\ loopName = n /\ pc' = "loop"
                  /\ dependants' = dependants
                  /\ task' = task]_vars

\* a service without dependencies has been launched while the handle of
\* another service's goroutine is registered
C22_Witness ==
    /\ cmd = "start"
    /\ \E n \in NoDependencies :
          /\ n \in launched
          /\ \E d \in HandlesOfRun : d.owner # n /\ d.service = n


\* the declared services whose launch action is a no-op in the running start: a
\* process tracked by name, a container record that is not STOPPED
NoOp ==
    {n \in DOMAIN services :
        IF DriverFromString(services[n].Driver) = EXEC
        THEN n \in DOMAIN storeBefore.Processes
        ELSE /\ n \in DOMAIN storeBefore.Containers
             /\ storeBefore.Containers[n].Status # STOPPED}

\* the ready notifications the invokeStart of service n has sent in this start
sentBy(n) == {p \in sent : p[1] = n}

\* C23: a service whose launch action is a no-op goes through invokeStart like
\* any other: its task completes only by calling the (trivial) closure, by then
\* it has sent exactly one ready notification, its own name, which the
\* coordinator takes up for the handles registered for it, and the step that
\* calls the closure lowers the barrier by one and leaves the store as it is.
C23_NoOpKeepsBookkeeping ==
    /\ [](cmd = "start" =>
            \A n \in NoOp :
                /\ n \in completed => n \in launched
                /\ n \in launched => sentBy(n) = {<<n, n>>}
                /\ Cardinality(sentBy(n)) <= 1)
    /\ [][(cmd = "start" /\ pc # "idle") =>
            \A n \in NoOp :
                /\ n \in launchedNow =>
                      /\ wg' = wg - 1
                      /\ store' = store
                      /\ engineOps' = engineOps
                /\ sentBy(n)' # sentBy(n) =>
                      /\ sentBy(n)' = {<<n, n>>}
                      /\ coord' = coordDone(n)
         ]_vars

\* a no-op service with dependencies has completed its launch task
C23_NoOpWithDependenciesDone ==
    /\ cmd = "start"
    /\ \E n \in NoOp : Len(services[n].DependsOn) > 0 /\ n \in launched
    /\ \E n \in NoOp : Len(services[n].DependsOn) = 0 /\ n \in launched


\* C24: in a start, a service has a RUNNING record only if the record was
\* RUNNING when the start began or the service's launch action has been called.
C24_RunningOnlyAfterLaunch ==
    cmd = "start" =>
        \A n \in Names :
            IsServiceRunning(n) => (n \in runningBefore \/ n \in launched)

\* C24, the failing start: the step in which a service's launch action is
\* called and its engine start or process spawn fails leaves the service
\* without RUNNING record, unless it was RUNNING when the start began.
C24_FailedStartNotRunning ==
    [][(cmd = "start" /\ pc # "idle") =>
          \A n \in launchedNow :
              (faults' # faults /\ n \notin runningBefore) => ~IsServiceRunning(n)'
      ]_vars

\* a container has been created and not yet started
C24_CreatedNotLaunched ==
    /\ cmd = "start"
    /\ \E n \in DOMAIN Containers :
          /\ n \notin runningBefore
          /\ n \notin launched
          /\ Containers[n].Status = RUNNING


\* the declared container services with a port spec NewPortBinding rejects
MalformedPorts ==
    {n \in DOMAIN services :
        /\ DriverFromString(services[n].Driver) # EXEC
        /\ \E i \in 1..Len(services[n].Ports) :
              NewPortBinding(services[n].Ports[i]).err # nil}

\* C25: in a start, no container is created for a container service with a
\* malformed port spec (a service without record when the start began has none
\* afterwards, the engine is not asked to create it), and the start returns an
\* error.
C25_MalformedPortNotCreated ==
    cmd = "start" =>
        \A n \in MalformedPorts \ DOMAIN storeBefore.Containers :
            /\ n \notin DOMAIN Containers
            /\ n \notin DOMAIN builders
            /\ pc = "Save" => retErr # nil

\* the builder of a service with a malformed port spec has recorded the error,
\* the container exists and start has returned nil
C25_CreatedDespiteError ==
    /\ cmd = "start"
    /\ pc = "Save"
    /\ retErr = nil
    /\ \E n \in MalformedPorts \ DOMAIN storeBefore.Containers :
          /\ n \in DOMAIN builders
          /\ builders[n].err = "could not parse port string as port binding"
          /\ builders[n].PortBindings = EmptyMap
          /\ n \in DOMAIN Containers
          /\ n \in launched


\* the tasks about to store into the map
Writers(map) == {t \in Tasks : Access(map, TRUE) \in Accesses(t)}

\* C26: the writes to the Containers map and to the Processes map are
\* serialized: never are two tasks (the caller's loop, the goroutines' launch
\* actions) about to store into the same map with nothing ordering them.
C26_MapWritesSerialized ==
    /\ Cardinality(Writers("Containers")) <= 1
    /\ Cardinality(Writers("Processes")) <= 1

\* a goroutine's restart closure and the caller's are about to store into
\* Containers
C26_TwoWriters ==
    /\ "caller" \in Writers("Containers")
    /\ \E g \in Names : g \in Writers("Containers") /\ task[g].start.kind = "restart"


\* C27: in the HTTP server never are two requests about to write the state
\* file at once, and no request is at its Save while a launch task of another
\* request is outstanding (a goroutine not finished, the other request still
\* launching its services).
C27_OneSaveAfterAllTasks ==
    /\ ~(pc = "Save" /\ req = "Save")
    /\ req = "Save" =>
          /\ NoTaskOutstanding
          /\ pc \notin {"loop", "invokeStart", "startClosure"}

\* the second request is at its Save while a goroutine of the start request
\* waits for its dependency
C27_SaveDuringLaunch ==
    /\ req = "Save"
    /\ \E g \in Names : task[g].pc = "Wait"

\* both requests are at their Save
C27_TwoSaves == pc = "Save" /\ req = "Save"


\* a further start on an App whose earlier start completed: no stop or clean in
\* between, an acyclic declared graph, every declared service RUNNING in the
\* map of its driver, no call failing
SecondRun ==
    /\ cmd = "start"
    /\ runs >= 1
    /\ stops = 0
    /\ faults = 0
    /\ services # EmptyMap
    /\ Acyclic(services)
    /\ Declared(services)
    /\ RecordsRunningBefore

\* C28: in a further start run after a completed one the coordinator only ever
\* sends to a handle registered in this run, and the run never comes to a state
\* in which no task can take a step before App.Wait has returned.
C28_SecondRunCompletes ==
    SecondRun =>
        /\ coord.pc = "signal" => dependants[coord.idx].run = runs
        /\ RunPending => ENABLED Next

\* C28, the blocked run alone
C28_SecondRunNeverStuck == SecondRun => (RunPending => ENABLED Next)

\* a second run has completed on an App that was made anew after the first
\* (the command line): its coordinator has no handle of the earlier run
C28_SecondRunAfterNewApp ==
    /\ SecondRun
    /\ pc = "Save"
    /\ dependants = <<>>
    /\ \E n \in DOMAIN services : Len(services[n].DependsOn) > 0 /\ n \in launched


\* a start over an acyclic declared graph in which a start closure has
\* returned an error and no other call has failed
StartClosureFailed ==
    /\ cmd = "start"
    /\ services # EmptyMap
    /\ Acyclic(services)
    /\ Declared(services)
    /\ failedOps # {}
    /\ failedOps \subseteq {"ProcessStart", "ContainerStart"}

\* the goroutines that begin in this step to wait for service A: they have
\* found A not RUNNING and made the handle they will register
beginWait(A) ==
    {g \in Names : /\ task[g].pc = "check"
                   /\ task'[g].pc = "AddDependency"
                   /\ task'[g].dep.service = A}

\* C29: after the start closure of a dependency has returned an error its
\* dependents are not stranded: the run never comes to a state in which no task
\* can take a step before App.Wait has returned.
C29_FailedLaunchDoesNotStrand ==
    StartClosureFailed => (RunPending => ENABLED Next)

\* C29, the wait that cannot end: when no call but a start closure has failed,
\* no goroutine begins to wait for a service whose launch action has been
\* called, its ready notification being sent already.
C29_NoWaitForCompleted ==
    [][(cmd = "start" /\ pc # "idle"
            /\ failedOps \subseteq {"ProcessStart", "ContainerStart"}) =>
          \A A \in launched : beginWait(A) = {}]_vars

\* without a failing call no goroutine begins to wait for a completed service
C29_NoWaitForCompletedWithoutFailure ==
    [][(cmd = "start" /\ pc # "idle" /\ faults' = 0 /\ stops = 0) =>
          \A A \in completed : beginWait(A) = {}]_vars

\* the process of a failed spawn has no record, its dependent waits for it and
\* no task can take a step
C29_Stranded ==
    /\ StartClosureFailed
    /\ pc = "Wait"
    /\ ~ENABLED Next
    /\ \E g \in Names :
          /\ task[g].pc = "Wait"
          /\ task[g].dep.service \in launched
          /\ ~IsServiceRunning(task[g].dep.service)

\* ------------------------------------------------------------------ C30
\* the step is the clean command
cleanStep == pc = "idle" /\ cmd' = "clean"

\* a step other than clean keeps every registered source and its volume id
KeepsRegistered ==
    \A src \in DOMAIN Volumes : src \in DOMAIN Volumes' /\ Volumes'[src] = Volumes[src]

\* VolumeCreate is called only for a source that is not registered
CreateOnlyUnregistered ==
    \A c \in volCreates' \ volCreates : c.source \notin DOMAIN Volumes

\* the step of registerVolumes that meets a malformed spec or an engine error
registerVolumesFails ==
    /\ pc = "createServiceVolumes"
    /\ Len(errs') = Len(errs) + 1
    /\ errs'[Len(errs')] # nil

\* C30 as stated, first clause: between two cleans VolumeCreate is called at
\* most once for each volume source, whatever the calls returned.
C30_OneCreatePerSource ==
    \A c, d \in volCreates : c.source = d.source => c = d

\* C30, amended: registerVolumes calls VolumeCreate only for a source that is
\* not registered, so between two cleans at most one call per source succeeds
\* (a call that failed is made again by the next start); no step other than
\* clean changes or removes the volume id of a registered source; and the first
\* malformed spec or engine error ends registerVolumes with the entries
\* registered before it kept.
C30_RegistrationIdempotent ==
    /\ [](\A c, d \in volCreates : (c.ok /\ d.ok /\ c.source = d.source) => c = d)
    /\ [][ /\ ~cleanStep => KeepsRegistered
           /\ ~cleanStep => CreateOnlyUnregistered
           /\ registerVolumesFails => /\ volQueue' = <<>>
                                      /\ pc' = "createProcesses"
                                      /\ volCreates' \ volCreates \subseteq
                                            {c \in volCreates' : ~c.ok}
                                      /\ KeepsRegistered ]_vars

\* a later start has met the spec of a source an earlier start registered and
\* has finished registerVolumes without a VolumeCreate, the id being the one the
\* earlier start stored
C30_Witness ==
    /\ cmd = "start"
    /\ pc = "createProcesses"
    /\ runs >= 1
    /\ "VolumeCreate" \notin engineOps
    /\ \E r \in parsed :
          /\ r.err = nil
          /\ r.vol.Source \in DOMAIN Volumes
          /\ Volumes[r.vol.Source].gen <= runs
          /\ [source |-> r.vol.Source, ok |-> TRUE, gen |-> Volumes[r.vol.Source].gen]
                \in volCreates

\* registerVolumes has stopped at an error with an earlier volume registered
\* by the same start
C30_StoppedWithEarlierKept ==
    /\ cmd = "start"
    /\ pc = "createProcesses"
    /\ Len(errs) > 0 /\ errs[Len(errs)] # nil
    /\ \E c \in volCreates :
          /\ c.ok /\ c.gen = runs + 1
          /\ c.source \in DOMAIN Volumes

\* the same source has been asked of the engine twice between two cleans
C30_CreateAgainAfterFailure ==
    \E c, d \in volCreates : c.source = d.source /\ ~c.ok /\ d.ok

=============================================================================
